---- MODULE Spec2Model ----
(***************************************************************************)
(* A model of the analysis pipeline of go-web-analyzer (analyzer.go):      *)
(* AnalyzeURL with its stages (normalizeURL, the page fetch through        *)
(* http.Client with the CheckRedirect policy, the status check, the body   *)
(* read, the HTML parse, classifyLinks) and the concurrent reachability    *)
(* checker checkLinksAccessibility / linkAccessible (one goroutine per     *)
(* link, a buffered channel as semaphore, a WaitGroup and a mutex around   *)
(* the shared counter).                                                    *)
(*                                                                         *)
(* Strings are sequences of tokens ("https://", a host, "/path", "?query", *)
(* "#fragment", " " for white space, "%zz" for a malformed escape), so     *)
(* that trimming, prefix tests, url.Parse and URL.String are computed and  *)
(* not assumed.  The network is the environment: every request completes   *)
(* with a status, a transport error or the context's cancellation error.   *)
(***************************************************************************)
EXTENDS Integers, Sequences, FiniteSets, TLC

VARIABLES
    entry,          \* which function was called: "AnalyzeURL" or "checkLinksAccessibility"
    pc,             \* position of the calling goroutine
    raw,            \* AnalyzeURL's argument raw
    reqURL,         \* req.URL of the request built at analyzer.go:53
    finalURL,       \* URL of the request that got the final response (resp.Request.URL)
    nreqs,          \* len(reqs) inside client.Do: page requests made so far
    respStatus,     \* resp.StatusCode of the page response (0: no response)
    doc,            \* the fetched document
    base,           \* the base URL handed to classifyLinks
    internal,       \* classifyLinks' results
    external,
    links,          \* the link list given to checkLinksAccessibility
    result,         \* AnalyzeURL's returned *AnalyzeResult
    err,            \* AnalyzeURL's returned error
    stages,         \* the stages AnalyzeURL has entered, in order
    ctxDone,        \* ctx has been cancelled
    maxConcurrent,  \* capacity of sem
    sem,            \* number of elements in the channel sem
    wg,             \* the WaitGroup counter
    mu,             \* holder of the mutex (0: unlocked)
    inaccessible,   \* the shared counter
    spawned,        \* goroutines started by the loop at analyzer.go:220
    gpc,            \* position of each probe goroutine
    headOut,        \* outcome of each link's HEAD request
    getOut,         \* outcome of each link's GET request
    tmp,            \* the value read by inaccessible++ before it is written back
    counted,        \* the goroutines that have executed inaccessible++
    ret,            \* value returned by checkLinksAccessibility (-1: not returned)
    out,            \* value returned by a direct call of normalizeURL or hasLoginForm
    prev,           \* what the previous call of classifyLinks returned
    cls,            \* what the last call of classifyLinks left behind
    pos,            \* anchors the running call of classifyLinks has visited
    found,          \* value returned by a direct call of hasLoginForm
    httpStatus      \* status handleAnalyze gave to w.WriteHeader (-1: not yet
                    \* answered, 0: answered without WriteHeader)

vars == <<entry, pc, raw, reqURL, finalURL, nreqs, respStatus, doc, base,
          internal, external, links, result, err, stages, ctxDone,
          maxConcurrent, sem, wg, mu, inaccessible, spawned, gpc, headOut,
          getOut, tmp, counted, ret, out, prev, cls, pos, found,
          httpStatus>>

pageVars == <<raw, reqURL, finalURL, nreqs, respStatus, doc, base, internal,
              external, result, err, stages>>
poolVars == <<maxConcurrent, sem, wg, mu, inaccessible, spawned, gpc,
              headOut, getOut, tmp, counted, ret>>
callerVars == <<out, prev, cls, pos, found, httpStatus>>

----------------------------------------------------------------------------
(* Bounds of the model and constants of the program.                       *)

MaxLinks == 2       \* longest link list of a direct call of checkLinksAccessibility
MaxCap == 2         \* largest maxConcurrent of a direct call
AnalyzeCap == 10    \* analyzer.go:101
RedirectCap == 5    \* analyzer.go:61
StatusLow == 200    \* analyzer.go:73, 246, 260
StatusHigh == 400

----------------------------------------------------------------------------
(* Strings as token sequences, net/url.                                    *)

WS == " "
BadEscape == "%zz"
SchemeToks == {"http://", "https://"}
HostToks == {"a.example", "A.EXAMPLE", "b.example"}
PathToks == {"/p", "/x", "/y"}
QueryToks == {"?q"}
EmptyQuery == "?"   \* a "?" with nothing after it
FragToks == {"#f"}

\* url.URL: query is RawQuery with its "?", force is ForceQuery
NoURL ==
    [scheme |-> "", host |-> "", path |-> "", query |-> "", force |-> FALSE,
     frag |-> ""]

RECURSIVE TrimLeft(_)
TrimLeft(s) == IF s # <<>> /\ Head(s) = WS THEN TrimLeft(Tail(s)) ELSE s

RECURSIVE TrimRight(_)
TrimRight(s) ==
    IF s # <<>> /\ s[Len(s)] = WS THEN TrimRight(SubSeq(s, 1, Len(s) - 1)) ELSE s

\* strings.TrimSpace
TrimSpace(s) == TrimRight(TrimLeft(s))

\* strings.HasPrefix, for a prefix that is one token
HasPrefix(s, p) == s # <<>> /\ Head(s) = p

SchemeOf(tok) == IF tok = "http://" THEN "http" ELSE "https"
SchemeTok(scheme) == IF scheme = "http" THEN "http://" ELSE "https://"

\* url.Parse: scheme, host, path, query and fragment in this order, each
\* optional; anything else (white space, a malformed escape, a host after a
\* path) is an error.  A "?" that ends the query-less rest sets ForceQuery.
Parse(s) ==
    LET hasScheme == s # <<>> /\ Head(s) \in SchemeToks
        s1 == IF hasScheme THEN Tail(s) ELSE s
        hasHost == hasScheme /\ s1 # <<>> /\ Head(s1) \in HostToks
        s2 == IF hasHost THEN Tail(s1) ELSE s1
        hasPath == s2 # <<>> /\ Head(s2) \in PathToks
        s3 == IF hasPath THEN Tail(s2) ELSE s2
        hasQuery == s3 # <<>> /\ Head(s3) \in QueryToks \cup {EmptyQuery}
        s4 == IF hasQuery THEN Tail(s3) ELSE s3
        hasFrag == s4 # <<>> /\ Head(s4) \in FragToks
        s5 == IF hasFrag THEN Tail(s4) ELSE s4
    IN  IF s5 # <<>>
        THEN [ok |-> FALSE, url |-> NoURL]
        ELSE [ok |-> TRUE,
              url |-> [scheme |-> IF hasScheme THEN SchemeOf(Head(s)) ELSE "",
                       host |-> IF hasHost THEN Head(s1) ELSE "",
                       path |-> IF hasPath THEN Head(s2) ELSE "",
                       query |-> IF hasQuery /\ Head(s3) # EmptyQuery
                                 THEN Head(s3) ELSE "",
                       force |-> hasQuery /\ Head(s3) = EmptyQuery,
                       frag |-> IF hasFrag THEN Head(s4) ELSE ""]]

\* (*URL).String
URLString(u) ==
    (IF u.scheme # "" THEN <<SchemeTok(u.scheme)>> ELSE <<>>)
    \o (IF u.host # "" THEN <<u.host>> ELSE <<>>)
    \o (IF u.path # "" THEN <<u.path>> ELSE <<>>)
    \o (IF u.query # "" THEN <<u.query>>
        ELSE IF u.force THEN <<EmptyQuery>> ELSE <<>>)
    \o (IF u.frag # "" THEN <<u.frag>> ELSE <<>>)

\* (*URL).IsAbs
IsAbs(u) == u.scheme # ""

\* (*URL).ResolveReference for a reference without scheme
ResolveReference(b, ref) ==
    IF ref.host # ""
    THEN [ref EXCEPT !.scheme = b.scheme]
    ELSE IF ref.path # ""
    THEN [ref EXCEPT !.scheme = b.scheme, !.host = b.host]
    ELSE [scheme |-> b.scheme, host |-> b.host, path |-> b.path,
          query |-> IF ref.query # "" \/ ref.force THEN ref.query ELSE b.query,
          force |-> ref.force,
          frag |-> ref.frag]

\* strings.ToLower on the host names of the model
Lower(h) == IF h = "A.EXAMPLE" THEN "a.example" ELSE h

\* strings.EqualFold
EqualFold(a, b) == Lower(a) = Lower(b)

\* sameHost
sameHost(a, b) == EqualFold(a.host, b.host)

----------------------------------------------------------------------------
(* normalizeURL                                                            *)

\* normalizeURL without the test of the host
normalizeURLNoHostCheck(r) ==
    LET t == TrimSpace(r)
        withScheme == IF ~HasPrefix(t, "http://") /\ ~HasPrefix(t, "https://")
                      THEN <<"https://">> \o t
                      ELSE t
        p == Parse(withScheme)
    IN  IF t = <<>> THEN [ok |-> FALSE, out |-> <<>>, why |-> "empty URL"]
        ELSE IF ~p.ok THEN [ok |-> FALSE, out |-> <<>>, why |-> "parse"]
        ELSE [ok |-> TRUE, out |-> URLString(p.url), why |-> ""]

normalizeURL(r) ==
    LET t == TrimSpace(r)
        withScheme == IF ~HasPrefix(t, "http://") /\ ~HasPrefix(t, "https://")
                      THEN <<"https://">> \o t
                      ELSE t
        p == Parse(withScheme)
    IN  IF t = <<>> THEN [ok |-> FALSE, out |-> <<>>, why |-> "empty URL"]
        ELSE IF ~p.ok THEN [ok |-> FALSE, out |-> <<>>, why |-> "parse"]
        ELSE IF p.url.host = "" THEN [ok |-> FALSE, out |-> <<>>, why |-> "missing host"]
        ELSE [ok |-> TRUE, out |-> URLString(p.url), why |-> ""]

----------------------------------------------------------------------------
(* Documents, classifyLinks                                                *)

\* A fetched body: whether the HTML parsers accept it, and the href
\* attribute of each a[href] element in document order.
\* forms is the controls (input, button, ...) inside each form element.
NoDoc ==
    [present |-> FALSE, parseable |-> FALSE, anchors |-> <<>>, forms |-> <<>>]
Page(anchors) ==
    [present |-> TRUE, parseable |-> TRUE, anchors |-> anchors, forms |-> <<>>]
Garbage ==
    [present |-> TRUE, parseable |-> FALSE, anchors |-> <<>>, forms |-> <<>>]
FormPage(forms) == [Page(<<>>) EXCEPT !.forms = forms]

\* classifyAnchor without the return on a parse error
classifyAnchorIgnoresParseError(acc, hrefAttr, b) ==
    LET href == TrimSpace(hrefAttr)
        p == Parse(href)
        u0 == IF ~IsAbs(p.url) THEN ResolveReference(b, p.url) ELSE p.url
        u == [u0 EXCEPT !.frag = "", !.query = ""]
        final == URLString(u)
    IN  IF \/ href = <<>>
           \/ HasPrefix(href, "javascript:")
           \/ HasPrefix(href, "mailto:")
           \/ (href # <<>> /\ Head(href) \in FragToks \cup {"#"})
        THEN acc
        ELSE IF final \in acc.seen THEN acc
        ELSE [seen |-> acc.seen \cup {final},
              internal |-> IF sameHost(u, b) THEN acc.internal + 1 ELSE acc.internal,
              external |-> IF sameHost(u, b) THEN acc.external ELSE acc.external + 1,
              all |-> Append(acc.all, URLString(u))]

\* The body of the callback at analyzer.go:153-181 for one anchor; acc is
\* the state the closure captures (seen, internal, external, all).
classifyAnchor(acc, hrefAttr, b) ==
    LET href == TrimSpace(hrefAttr)
        p == Parse(href)
        u0 == IF ~IsAbs(p.url) THEN ResolveReference(b, p.url) ELSE p.url
        u == [u0 EXCEPT !.frag = "", !.query = ""]
        final == URLString(u)
    IN  IF \/ href = <<>>
           \/ HasPrefix(href, "javascript:")
           \/ HasPrefix(href, "mailto:")
           \/ (href # <<>> /\ Head(href) \in FragToks \cup {"#"})
        THEN acc
        ELSE IF ~p.ok THEN acc
        ELSE IF final \in acc.seen THEN acc
        ELSE [seen |-> acc.seen \cup {final},
              internal |-> IF sameHost(u, b) THEN acc.internal + 1 ELSE acc.internal,
              external |-> IF sameHost(u, b) THEN acc.external ELSE acc.external + 1,
              all |-> Append(acc.all, URLString(u))]

RECURSIVE classifyFrom(_, _, _)
classifyFrom(acc, anchors, b) ==
    IF anchors = <<>> THEN acc
    ELSE classifyFrom(classifyAnchor(acc, Head(anchors), b), Tail(anchors), b)

\* a seen map that outlives the call
NewAccKeepSeen(old) ==
    [seen |-> old.seen, internal |-> 0, external |-> 0, all |-> <<>>]

\* analyzer.go:151-152: every call starts from zero named results and a
\* seen map of its own, whatever an earlier call left behind.
NewAcc(old) == [seen |-> {}, internal |-> 0, external |-> 0, all |-> <<>>]

\* what no call has left behind
NoAcc == [seen |-> {}, internal |-> 0, external |-> 0, all |-> <<>>]

classifyLinks(d, b) == classifyFrom(NewAcc(NoAcc), d.anchors, b)

----------------------------------------------------------------------------
(* hasLoginForm                                                            *)

\* An element inside a form: its tag and its type, name and id attributes.
\* An id is a sequence of word tokens, so that id*="user" can be decided.
Control(tag, type, name, id) ==
    [tag |-> tag, type |-> type, name |-> name, id |-> id]

\* the attribute selector [id*="sub"]
Contains(id, sub) == \E k \in DOMAIN id : id[k] = sub

\* a detector that is content with a user field or a submit control
formMatchesUserOrSubmit(f) ==
    LET pass == \E k \in DOMAIN f : f[k].tag = "input" /\ f[k].type = "password"
        hasUser == \E k \in DOMAIN f :
                       /\ f[k].tag = "input"
                       /\ \/ f[k].name = "username"
                          \/ f[k].name = "email"
                          \/ Contains(f[k].id, "user")
                          \/ Contains(f[k].id, "email")
        hasSubmit == \E k \in DOMAIN f :
                         /\ f[k].tag \in {"button", "input"}
                         /\ f[k].type = "submit"
    IN  pass \/ (hasUser \/ hasSubmit)

\* analyzer.go:192-203: the callback's verdict on one form
formMatches(f) ==
    LET pass == \E k \in DOMAIN f : f[k].tag = "input" /\ f[k].type = "password"
        hasUser == \E k \in DOMAIN f :
                       /\ f[k].tag = "input"
                       /\ \/ f[k].name = "username"
                          \/ f[k].name = "email"
                          \/ Contains(f[k].id, "user")
                          \/ Contains(f[k].id, "email")
        hasSubmit == \E k \in DOMAIN f :
                         /\ f[k].tag \in {"button", "input"}
                         /\ f[k].type = "submit"
    IN  pass \/ (hasUser /\ hasSubmit)

\* EachWithBreak over the forms in document order, stopping at the first
\* form that matches
RECURSIVE hasLoginFormFrom(_)
hasLoginFormFrom(forms) ==
    IF forms = <<>> THEN FALSE
    ELSE IF formMatches(Head(forms)) THEN TRUE
    ELSE hasLoginFormFrom(Tail(forms))

hasLoginForm(d) == hasLoginFormFrom(d.forms)

----------------------------------------------------------------------------
(* Values of the model                                                     *)

\* AnalyzeURL's argument
RawInputs ==
    { <<>>, <<WS>>, <<"a.example">>, <<WS, "http://", "a.example", "/p", WS>>,
      <<"http://">>, <<"https://", BadEscape>> }

\* Location headers a server of the model answers a redirect with
RedirectTargets ==
    { [NoURL EXCEPT !.scheme = "https", !.host = "b.example", !.path = "/p"] }

\* Final (non-redirect) statuses of the page
PageStatuses == {101, 200, 399, 400, 404}

\* Final statuses of a link probe
LinkStatuses == {200, 399, 400}

Docs ==
    { Garbage,
      Page(<<>>),
      Page(<< <<"/x">>, <<"https://", "A.EXAMPLE", "/y", "#f">> >>),
      Page(<< <<WS, "/x", "?q">>, <<"/x", "#f">>, <<"mailto:">>,
              <<"https://", "b.example", "/y">> >>) }

\* The link lists of direct calls of checkLinksAccessibility (as in
\* TestCheckLinksAccessibility): n distinct server URLs.
TestHosts == <<"a.example", "b.example", "A.EXAMPLE", "a.example", "b.example">>
TestLinks(n) == [k \in 1..n |-> <<"http://", TestHosts[k]>>]

\* no direct call has returned yet
NoOut == [ok |-> FALSE, out |-> <<>>, why |-> "not called"]

NoError == [isNil |-> TRUE, StatusCode |-> 0, Err |-> ""]
AnalyzeError(code, why) == [isNil |-> FALSE, StatusCode |-> code, Err |-> why]

NoResult ==
    [isNil |-> TRUE, Links |-> [Internal |-> 0, External |-> 0, Total |-> 0],
     Inaccessible |-> 0]

\* Outcomes of client.Do
Unsent == [err |-> "unsent", code |-> 0]
Response(s) == [err |-> "", code |-> s]
TransportError == [err |-> "transport", code |-> 0]
\* ctx.Err(), seen while the request was in flight
Canceled == [err |-> "canceled", code |-> 0]
\* ctx.Err(), returned for a request on a context that was cancelled before:
\* the transport gives up before it sends anything
CanceledUnsent == [err |-> "canceled before send", code |-> 0]

\* What a request in flight can complete with: a response, a transport
\* error or time-out, and, once ctx is cancelled, the cancellation error.
Outcomes(statuses) ==
    {Response(s) : s \in statuses} \cup {TransportError}
        \cup (IF ctxDone THEN {Canceled} ELSE {})

----------------------------------------------------------------------------
(* The initial states: a call of AnalyzeURL(ctx, raw), or a direct call of *)
(* checkLinksAccessibility(ctx, links, maxConcurrent) as the tests make.   *)

Init ==
    /\ entry \in {"AnalyzeURL", "checkLinksAccessibility"}
    /\ IF entry = "AnalyzeURL"
       THEN /\ pc = "start"
            /\ raw \in RawInputs
            /\ links = <<>>
            /\ maxConcurrent = 0
       ELSE /\ pc = "call"
            /\ raw = <<>>
            /\ links \in {TestLinks(n) : n \in 0..MaxLinks}
            /\ maxConcurrent \in 1..MaxCap
    /\ reqURL = NoURL
    /\ finalURL = NoURL
    /\ nreqs = 0
    /\ respStatus = 0
    /\ doc = NoDoc
    /\ base = NoURL
    /\ internal = 0
    /\ external = 0
    /\ result = NoResult
    /\ err = NoError
    /\ stages = <<>>
    /\ ctxDone = FALSE
    /\ sem = 0
    /\ wg = 0
    /\ mu = 0
    /\ inaccessible = 0
    /\ spawned = 0
    /\ gpc = <<>>
    /\ headOut = <<>>
    /\ getOut = <<>>
    /\ tmp = <<>>
    /\ counted = {}
    /\ ret = -1
    /\ out = NoOut
    /\ prev = NoAcc
    /\ cls = NoAcc
    /\ pos = 0
    /\ found = FALSE
    /\ httpStatus = -1

\* The caller cancels ctx (the client disconnects, the request times out).
Cancel ==
    /\ pc # "done"
    /\ ~ctxDone
    /\ ctxDone' = TRUE
    /\ UNCHANGED <<entry, pc, links>>
    /\ UNCHANGED pageVars
    /\ UNCHANGED poolVars
    /\ UNCHANGED callerVars

----------------------------------------------------------------------------
(* AnalyzeURL                                                              *)

\* return nil, &AnalyzeError{...}
Fail(code, why) ==
    /\ err' = AnalyzeError(code, why)
    /\ pc' = "done"

\* analyzer.go:48-51
Normalize ==
    /\ pc = "start"
    /\ stages' = Append(stages, "Normalize")
    /\ LET n == normalizeURL(raw)
       IN  IF ~n.ok
           THEN /\ Fail(0, "invalid URL")
                /\ reqURL' = reqURL
           ELSE /\ pc' = "newreq"
                /\ reqURL' = Parse(n.out).url
                /\ err' = err
    /\ UNCHANGED <<entry, raw, finalURL, nreqs, respStatus, doc, base, internal,
                   external, links, result, ctxDone>>
    /\ UNCHANGED poolVars
    /\ UNCHANGED callerVars

\* analyzer.go:53-67: the request and the client are built and client.Do
\* is entered; the first request goes to req.URL.  parsed is an output of
\* (*URL).String, so http.NewRequestWithContext parses it without error.
NewRequest ==
    /\ pc = "newreq"
    /\ stages' = Append(stages, "Fetch")
    /\ finalURL' = reqURL
    /\ pc' = "send"
    /\ UNCHANGED <<entry, raw, reqURL, nreqs, respStatus, doc, base, internal,
                   external, links, result, err, ctxDone>>
    /\ UNCHANGED poolVars
    /\ UNCHANGED callerVars

\* client.Do: reqs = append(reqs, req); c.send(req).  A request on a
\* cancelled context fails before it is sent.
PageSend ==
    /\ pc = "send"
    /\ IF ctxDone
       THEN /\ Fail(0, CanceledUnsent.err)
            /\ nreqs' = nreqs
       ELSE /\ nreqs' = nreqs + 1
            /\ pc' = "recv"
            /\ err' = err
    /\ UNCHANGED <<entry, raw, reqURL, finalURL, respStatus, doc, base, internal,
                   external, links, result, stages, ctxDone>>
    /\ UNCHANGED poolVars
    /\ UNCHANGED callerVars

\* analyzer.go:60-65
CheckRedirect(via) == via >= RedirectCap

\* The request in flight fails: transport error, the 15 s time-out or the
\* cancellation of ctx (analyzer.go:68-70).
PageError ==
    /\ pc = "recv"
    /\ \E o \in Outcomes({}) : Fail(0, o.err)
    /\ UNCHANGED <<entry, raw, reqURL, finalURL, nreqs, respStatus, doc, base,
                   internal, external, links, result, stages, ctxDone>>
    /\ UNCHANGED poolVars
    /\ UNCHANGED callerVars

\* The server answers with a redirect to loc: client.Do asks CheckRedirect
\* with via = reqs and either gives up or makes the next request.
PageRedirect(loc) ==
    /\ pc = "recv"
    /\ IF CheckRedirect(nreqs)
       THEN /\ Fail(0, "stopped after 5 redirects")
            /\ finalURL' = finalURL
       ELSE /\ finalURL' = loc
            /\ pc' = "send"
            /\ err' = err
    /\ UNCHANGED <<entry, raw, reqURL, nreqs, respStatus, doc, base, internal,
                   external, links, result, stages, ctxDone>>
    /\ UNCHANGED poolVars
    /\ UNCHANGED callerVars

\* The server answers with a final response: client.Do returns it, and
\* its local reqs is gone.
PageResponse(s) ==
    /\ pc = "recv"
    /\ respStatus' = s
    /\ nreqs' = 0
    /\ pc' = "status"
    /\ UNCHANGED <<entry, raw, reqURL, finalURL, doc, base, internal,
                   external, links, result, err, stages, ctxDone>>
    /\ UNCHANGED poolVars
    /\ UNCHANGED callerVars

\* the status test with the upper end off by one
StatusFailedOffByOne(s) == s < StatusLow \/ s > StatusHigh

\* analyzer.go:73
StatusFailed(s) == s < StatusLow \/ s >= StatusHigh

\* the status check without its return: the error is set and the call goes on
CheckStatusNoReturn ==
    /\ pc = "status"
    /\ err' = IF StatusFailed(respStatus)
              THEN AnalyzeError(respStatus, "body")
              ELSE err
    /\ pc' = "body"
    /\ UNCHANGED <<entry, raw, reqURL, finalURL, nreqs, respStatus, doc, base,
                   internal, external, links, result, stages, ctxDone>>
    /\ UNCHANGED poolVars
    /\ UNCHANGED callerVars

\* analyzer.go:73-76
CheckStatus ==
    /\ pc = "status"
    /\ IF StatusFailed(respStatus)
       THEN Fail(respStatus, "body")
       ELSE pc' = "body" /\ err' = err
    /\ UNCHANGED <<entry, raw, reqURL, finalURL, nreqs, respStatus, doc, base,
                   internal, external, links, result, stages, ctxDone>>
    /\ UNCHANGED poolVars
    /\ UNCHANGED callerVars

\* analyzer.go:78-81: io.ReadAll fails
ReadBodyFail ==
    /\ pc = "body"
    /\ Fail(0, "read")
    /\ UNCHANGED <<entry, raw, reqURL, finalURL, nreqs, respStatus, doc, base,
                   internal, external, links, result, stages, ctxDone>>
    /\ UNCHANGED poolVars
    /\ UNCHANGED callerVars

\* analyzer.go:78: io.ReadAll returns the body
ReadBody(d) ==
    /\ pc = "body"
    /\ doc' = d
    /\ pc' = "parse"
    /\ UNCHANGED <<entry, raw, reqURL, finalURL, nreqs, respStatus, base,
                   internal, external, links, result, err, stages, ctxDone>>
    /\ UNCHANGED poolVars
    /\ UNCHANGED callerVars

\* analyzer.go:82-95: html.Parse, goquery.NewDocumentFromReader and the
\* features read from the document
ParseHTML ==
    /\ pc = "parse"
    /\ stages' = Append(stages, "Parse")
    /\ IF ~doc.parseable
       THEN Fail(0, "parse")
       ELSE pc' = "classify" /\ err' = err
    /\ UNCHANGED <<entry, raw, reqURL, finalURL, nreqs, respStatus, doc, base,
                   internal, external, links, result, ctxDone>>
    /\ UNCHANGED poolVars
    /\ UNCHANGED callerVars

\* analyzer.go:97: the base URL AnalyzeURL passes to classifyLinks
ClassifyBase == reqURL

\* analyzer.go:97-101: classifyLinks(doc, req.URL), the link summary, and
\* the arguments of checkLinksAccessibility(ctx, allLinks, 10)
Classify ==
    /\ pc = "classify"
    /\ stages' = Append(stages, "Classify")
    /\ base' = ClassifyBase
    /\ LET c == classifyLinks(doc, ClassifyBase)
       IN  /\ internal' = c.internal
           /\ external' = c.external
           /\ links' = c.all
    /\ maxConcurrent' = AnalyzeCap
    /\ pc' = "call"
    /\ UNCHANGED <<entry, raw, reqURL, finalURL, nreqs, respStatus, doc, result,
                   err, ctxDone>>
    /\ UNCHANGED <<sem, wg, mu, inaccessible, spawned, gpc, headOut, getOut,
                   tmp, counted, ret>>
    /\ UNCHANGED callerVars

\* a summary whose total counts the internal links only
AssembleResultTotalInternal(in, ex, n) ==
    [isNil |-> FALSE,
     Links |-> [Internal |-> in, External |-> ex, Total |-> in],
     Inaccessible |-> n]

\* analyzer.go:98, 101-106: the result is assembled and returned
AssembleResult(in, ex, n) ==
    [isNil |-> FALSE,
     Links |-> [Internal |-> in, External |-> ex, Total |-> in + ex],
     Inaccessible |-> n]

\* a return that turns inaccessible links into an error
ReturnFailsOnDeadLinks ==
    /\ pc = "assemble"
    /\ IF ret > 0
       THEN Fail(0, "inaccessible links") /\ result' = result
       ELSE /\ result' = AssembleResult(internal, external, ret)
            /\ pc' = "done"
            /\ err' = err
    /\ UNCHANGED <<entry, raw, reqURL, finalURL, nreqs, respStatus, doc, base,
                   internal, external, links, stages, ctxDone>>
    /\ UNCHANGED poolVars
    /\ UNCHANGED callerVars

Return ==
    /\ pc = "assemble"
    /\ result' = AssembleResult(internal, external, ret)
    /\ pc' = "done"
    /\ UNCHANGED <<entry, raw, reqURL, finalURL, nreqs, respStatus, doc, base,
                   internal, external, links, err, stages, ctxDone>>
    /\ UNCHANGED poolVars
    /\ UNCHANGED callerVars

----------------------------------------------------------------------------
(* handleAnalyze, the caller of AnalyzeURL                                 *)

BadGateway == 502   \* http.StatusBadGateway

\* a handler that answers every error with 502
ErrorStatusAlwaysBadGateway(e) == BadGateway

\* part_001:33-36: the status of the error page
ErrorStatus(e) == IF e.StatusCode # 0 THEN e.StatusCode ELSE BadGateway

\* part_001:24-57: the handler calls AnalyzeURL only with a non-empty form
\* value; on an error it calls w.WriteHeader(status) and renders the error
\* page, on a result it renders the result without calling WriteHeader.
handleAnalyze ==
    /\ entry = "AnalyzeURL"
    /\ pc = "done"
    /\ raw # <<>>
    /\ httpStatus = -1
    /\ httpStatus' = IF ~err.isNil THEN ErrorStatus(err) ELSE 0
    /\ UNCHANGED <<entry, pc, links, ctxDone, out, prev, cls, pos, found>>
    /\ UNCHANGED pageVars
    /\ UNCHANGED poolVars

----------------------------------------------------------------------------
(* checkLinksAccessibility and linkAccessible                              *)

\* the goroutines the call has made room for, one per link
Probes == DOMAIN gpc

\* analyzer.go:246: the HEAD answer that makes linkAccessible return true
HeadOK(o) == o.err = "" /\ o.code >= StatusLow /\ o.code < StatusHigh

\* analyzer.go:256-260: the GET answer that makes linkAccessible return true
GetOK(o) == o.err = "" /\ o.code >= StatusLow /\ o.code < StatusHigh

\* analyzer.go:209-218: the call; an empty list returns 0 at once.
Call ==
    /\ pc = "call"
    /\ stages' = Append(stages, "Check")
    /\ IF Len(links) = 0
       THEN /\ ret' = 0
            /\ pc' = IF entry = "AnalyzeURL" THEN "assemble" ELSE "done"
       ELSE /\ ret' = ret
            /\ pc' = "loop"
    /\ sem' = 0
    /\ wg' = 0
    /\ mu' = 0
    /\ inaccessible' = 0
    /\ spawned' = 0
    /\ gpc' = [i \in 1..Len(links) |-> "idle"]
    /\ headOut' = [i \in 1..Len(links) |-> Unsent]
    /\ getOut' = [i \in 1..Len(links) |-> Unsent]
    /\ tmp' = [i \in 1..Len(links) |-> 0]
    /\ counted' = {}
    /\ UNCHANGED <<entry, raw, reqURL, finalURL, nreqs, respStatus, doc, base,
                   internal, external, links, result, err, ctxDone,
                   maxConcurrent>>
    /\ UNCHANGED callerVars

\* analyzer.go:220-223: wg.Add(1); go func() {...}()
Spawn ==
    /\ pc = "loop"
    /\ spawned < Len(links)
    /\ spawned' = spawned + 1
    /\ wg' = wg + 1
    /\ gpc' = [gpc EXCEPT ![spawned + 1] = "acquire"]
    /\ UNCHANGED <<entry, pc, links, ctxDone, maxConcurrent, sem, mu,
                   inaccessible, headOut, getOut, tmp, counted, ret>>
    /\ UNCHANGED pageVars
    /\ UNCHANGED callerVars

\* an acquire that never blocks
AcquireNoLimit(i) ==
    /\ gpc[i] = "acquire"
    /\ sem' = sem + 1
    /\ gpc' = [gpc EXCEPT ![i] = "head"]
    /\ UNCHANGED <<entry, pc, links, ctxDone, maxConcurrent, wg, mu,
                   inaccessible, spawned, headOut, getOut, tmp, counted, ret>>
    /\ UNCHANGED pageVars
    /\ UNCHANGED callerVars

\* analyzer.go:225: sem <- struct{}{} blocks while the channel is full
Acquire(i) ==
    /\ gpc[i] = "acquire"
    /\ sem < maxConcurrent
    /\ sem' = sem + 1
    /\ gpc' = [gpc EXCEPT ![i] = "head"]
    /\ UNCHANGED <<entry, pc, links, ctxDone, maxConcurrent, wg, mu,
                   inaccessible, spawned, headOut, getOut, tmp, counted, ret>>
    /\ UNCHANGED pageVars
    /\ UNCHANGED callerVars

\* analyzer.go:241-245: the HEAD request is built and client.Do is called;
\* on a cancelled context it fails without being sent.  The links are
\* outputs of (*URL).String (or the test servers' URLs), which parse again,
\* and ctx is never nil, so http.NewRequestWithContext does not fail here
\* nor at analyzer.go:251.
HeadSend(i) ==
    /\ gpc[i] = "head"
    /\ IF ctxDone
       THEN /\ headOut' = [headOut EXCEPT ![i] = CanceledUnsent]
            /\ gpc' = [gpc EXCEPT ![i] = "get"]
       ELSE /\ headOut' = headOut
            /\ gpc' = [gpc EXCEPT ![i] = "headWait"]
    /\ UNCHANGED <<entry, pc, links, ctxDone, maxConcurrent, sem, wg, mu,
                   inaccessible, spawned, getOut, tmp, counted, ret>>
    /\ UNCHANGED pageVars
    /\ UNCHANGED callerVars

\* a HEAD failure that returns false without the GET fallback
HeadDoneNoFallback(i, o) ==
    /\ gpc[i] = "headWait"
    /\ headOut' = [headOut EXCEPT ![i] = o]
    /\ gpc' = [gpc EXCEPT ![i] = IF HeadOK(o) THEN "release" ELSE "lock"]
    /\ UNCHANGED <<entry, pc, links, ctxDone, maxConcurrent, sem, wg, mu,
                   inaccessible, spawned, getOut, tmp, counted, ret>>
    /\ UNCHANGED pageVars
    /\ UNCHANGED callerVars

\* a HEAD whose answer is ignored: the GET is always made
HeadDoneAlwaysGet(i, o) ==
    /\ gpc[i] = "headWait"
    /\ headOut' = [headOut EXCEPT ![i] = o]
    /\ gpc' = [gpc EXCEPT ![i] = "get"]
    /\ UNCHANGED <<entry, pc, links, ctxDone, maxConcurrent, sem, wg, mu,
                   inaccessible, spawned, getOut, tmp, counted, ret>>
    /\ UNCHANGED pageVars
    /\ UNCHANGED callerVars

\* analyzer.go:245-250: client.Do returns for the HEAD; an answer in
\* [200,400) returns true, anything else falls back to GET.
HeadDone(i, o) ==
    /\ gpc[i] = "headWait"
    /\ headOut' = [headOut EXCEPT ![i] = o]
    /\ gpc' = [gpc EXCEPT ![i] = IF HeadOK(o) THEN "release" ELSE "get"]
    /\ UNCHANGED <<entry, pc, links, ctxDone, maxConcurrent, sem, wg, mu,
                   inaccessible, spawned, getOut, tmp, counted, ret>>
    /\ UNCHANGED pageVars
    /\ UNCHANGED callerVars

\* a GET built on a fresh context: it is sent although ctx is cancelled
GetSendIgnoresCancel(i) ==
    /\ gpc[i] = "get"
    /\ gpc' = [gpc EXCEPT ![i] = "getWait"]
    /\ UNCHANGED <<entry, pc, links, ctxDone, maxConcurrent, sem, wg, mu,
                   inaccessible, spawned, headOut, getOut, tmp, counted, ret>>
    /\ UNCHANGED pageVars
    /\ UNCHANGED callerVars

\* analyzer.go:251-255: the GET request is built and client.Do is called
GetSend(i) ==
    /\ gpc[i] = "get"
    /\ IF ctxDone
       THEN /\ getOut' = [getOut EXCEPT ![i] = CanceledUnsent]
            /\ gpc' = [gpc EXCEPT ![i] = "lock"]
       ELSE /\ getOut' = getOut
            /\ gpc' = [gpc EXCEPT ![i] = "getWait"]
    /\ UNCHANGED <<entry, pc, links, ctxDone, maxConcurrent, sem, wg, mu,
                   inaccessible, spawned, headOut, tmp, counted, ret>>
    /\ UNCHANGED pageVars
    /\ UNCHANGED callerVars

\* analyzer.go:255-260 and 228-229: client.Do returns for the GET and
\* linkAccessible returns; if !ok the goroutine goes for the mutex.
GetDone(i, o) ==
    /\ gpc[i] = "getWait"
    /\ getOut' = [getOut EXCEPT ![i] = o]
    /\ gpc' = [gpc EXCEPT ![i] = IF GetOK(o) THEN "release" ELSE "lock"]
    /\ UNCHANGED <<entry, pc, links, ctxDone, maxConcurrent, sem, wg, mu,
                   inaccessible, spawned, headOut, tmp, counted, ret>>
    /\ UNCHANGED pageVars
    /\ UNCHANGED callerVars

\* a Lock that excludes nobody
LockNoMutex(i) ==
    /\ gpc[i] = "lock"
    /\ mu' = i
    /\ gpc' = [gpc EXCEPT ![i] = "load"]
    /\ UNCHANGED <<entry, pc, links, ctxDone, maxConcurrent, sem, wg,
                   inaccessible, spawned, headOut, getOut, tmp, counted, ret>>
    /\ UNCHANGED pageVars
    /\ UNCHANGED callerVars

\* analyzer.go:230: mu.Lock()
Lock(i) ==
    /\ gpc[i] = "lock"
    /\ mu = 0
    /\ mu' = i
    /\ gpc' = [gpc EXCEPT ![i] = "load"]
    /\ UNCHANGED <<entry, pc, links, ctxDone, maxConcurrent, sem, wg,
                   inaccessible, spawned, headOut, getOut, tmp, counted, ret>>
    /\ UNCHANGED pageVars
    /\ UNCHANGED callerVars

\* analyzer.go:231: inaccessible++ reads the counter ...
Load(i) ==
    /\ gpc[i] = "load"
    /\ tmp' = [tmp EXCEPT ![i] = inaccessible]
    /\ gpc' = [gpc EXCEPT ![i] = "store"]
    /\ UNCHANGED <<entry, pc, links, ctxDone, maxConcurrent, sem, wg, mu,
                   inaccessible, spawned, headOut, getOut, counted, ret>>
    /\ UNCHANGED pageVars
    /\ UNCHANGED callerVars

\* an increment by two
StoreAddsTwo(i) ==
    /\ gpc[i] = "store"
    /\ inaccessible' = tmp[i] + 2
    /\ tmp' = [tmp EXCEPT ![i] = 0]
    /\ counted' = counted \cup {i}
    /\ gpc' = [gpc EXCEPT ![i] = "unlock"]
    /\ UNCHANGED <<entry, pc, links, ctxDone, maxConcurrent, sem, wg, mu,
                   spawned, headOut, getOut, ret>>
    /\ UNCHANGED pageVars
    /\ UNCHANGED callerVars

\* ... and writes it back incremented
Store(i) ==
    /\ gpc[i] = "store"
    /\ inaccessible' = tmp[i] + 1
    /\ tmp' = [tmp EXCEPT ![i] = 0]
    /\ counted' = counted \cup {i}
    /\ gpc' = [gpc EXCEPT ![i] = "unlock"]
    /\ UNCHANGED <<entry, pc, links, ctxDone, maxConcurrent, sem, wg, mu,
                   spawned, headOut, getOut, ret>>
    /\ UNCHANGED pageVars
    /\ UNCHANGED callerVars

\* analyzer.go:232: mu.Unlock()
Unlock(i) ==
    /\ gpc[i] = "unlock"
    /\ mu' = 0
    /\ gpc' = [gpc EXCEPT ![i] = "release"]
    /\ UNCHANGED <<entry, pc, links, ctxDone, maxConcurrent, sem, wg,
                   inaccessible, spawned, headOut, getOut, tmp, counted, ret>>
    /\ UNCHANGED pageVars
    /\ UNCHANGED callerVars

\* a goroutine that ends without taking its element out of sem
ReleaseKeepsSlot(i) ==
    /\ gpc[i] = "release"
    /\ gpc' = [gpc EXCEPT ![i] = "wgDone"]
    /\ UNCHANGED <<entry, pc, links, ctxDone, maxConcurrent, sem, wg, mu,
                   inaccessible, spawned, headOut, getOut, tmp, counted, ret>>
    /\ UNCHANGED pageVars
    /\ UNCHANGED callerVars

\* analyzer.go:226: the deferred <-sem
Release(i) ==
    /\ gpc[i] = "release"
    /\ sem' = sem - 1
    /\ gpc' = [gpc EXCEPT ![i] = "wgDone"]
    /\ UNCHANGED <<entry, pc, links, ctxDone, maxConcurrent, wg, mu,
                   inaccessible, spawned, headOut, getOut, tmp, counted, ret>>
    /\ UNCHANGED pageVars
    /\ UNCHANGED callerVars

\* analyzer.go:224: the deferred wg.Done()
WgDone(i) ==
    /\ gpc[i] = "wgDone"
    /\ wg' = wg - 1
    /\ gpc' = [gpc EXCEPT ![i] = "done"]
    /\ UNCHANGED <<entry, pc, links, ctxDone, maxConcurrent, sem, mu,
                   inaccessible, spawned, headOut, getOut, tmp, counted, ret>>
    /\ UNCHANGED pageVars
    /\ UNCHANGED callerVars

\* a return that does not wait for the goroutines
WaitNoJoin ==
    /\ pc = "loop"
    /\ spawned = Len(links)
    /\ ret' = inaccessible
    /\ pc' = IF entry = "AnalyzeURL" THEN "assemble" ELSE "done"
    /\ UNCHANGED <<entry, links, ctxDone, maxConcurrent, sem, wg, mu,
                   inaccessible, spawned, gpc, headOut, getOut, tmp, counted>>
    /\ UNCHANGED pageVars
    /\ UNCHANGED callerVars

\* analyzer.go:236-237: wg.Wait() returns once the counter is 0, and the
\* counter is returned.
Wait ==
    /\ pc = "loop"
    /\ spawned = Len(links)
    /\ wg = 0
    /\ ret' = inaccessible
    /\ pc' = IF entry = "AnalyzeURL" THEN "assemble" ELSE "done"
    /\ UNCHANGED <<entry, links, ctxDone, maxConcurrent, sem, wg, mu,
                   inaccessible, spawned, gpc, headOut, getOut, tmp, counted>>
    /\ UNCHANGED pageVars
    /\ UNCHANGED callerVars

----------------------------------------------------------------------------

Next ==
    \/ Cancel
    \/ Normalize
    \/ NewRequest
    \/ PageSend
    \/ PageError
    \/ \E loc \in RedirectTargets : PageRedirect(loc)
    \/ \E s \in PageStatuses : PageResponse(s)
    \/ CheckStatus
    \/ ReadBodyFail
    \/ \E d \in Docs : ReadBody(d)
    \/ ParseHTML
    \/ Classify
    \/ Return
    \/ handleAnalyze
    \/ Call
    \/ Spawn
    \/ \E i \in Probes : Acquire(i)
    \/ \E i \in Probes : HeadSend(i)
    \/ \E i \in Probes : \E o \in Outcomes(LinkStatuses) : HeadDone(i, o)
    \/ \E i \in Probes : GetSend(i)
    \/ \E i \in Probes : \E o \in Outcomes(LinkStatuses) : GetDone(i, o)
    \/ \E i \in Probes : Lock(i)
    \/ \E i \in Probes : Load(i)
    \/ \E i \in Probes : Store(i)
    \/ \E i \in Probes : Unlock(i)
    \/ \E i \in Probes : Release(i)
    \/ \E i \in Probes : WgDone(i)
    \/ Wait

Spec == Init /\ [][Next]_vars

----------------------------------------------------------------------------
(* A direct call of checkLinksAccessibility under fair scheduling: while   *)
(* the caller or some goroutine can take a step, or a request is waiting   *)
(* for its answer (which the client's 8 s timeout bounds), a step is       *)
(* eventually taken.  Nothing is assumed about the cancellation of ctx.    *)

InitPool == Init /\ entry = "checkLinksAccessibility"

\* Final statuses of a link probe: one inside [200,400) and one outside
FairStatuses == {200, 400}

PoolStep ==
    \/ Call
    \/ Spawn
    \/ \E i \in Probes : Acquire(i)
    \/ \E i \in Probes : HeadSend(i)
    \/ \E i \in Probes : \E o \in Outcomes(FairStatuses) : HeadDone(i, o)
    \/ \E i \in Probes : GetSend(i)
    \/ \E i \in Probes : \E o \in Outcomes(FairStatuses) : GetDone(i, o)
    \/ \E i \in Probes : Lock(i)
    \/ \E i \in Probes : Load(i)
    \/ \E i \in Probes : Store(i)
    \/ \E i \in Probes : Unlock(i)
    \/ \E i \in Probes : Release(i)
    \/ \E i \in Probes : WgDone(i)
    \/ Wait

NextPool ==
    \/ Cancel
    \/ PoolStep

FairPool == InitPool /\ [][NextPool]_vars /\ WF_vars(PoolStep)

----------------------------------------------------------------------------
(* Direct calls of normalizeURL, classifyLinks and hasLoginForm, as the    *)
(* tests make them.  classifyLinks is called twice on the same document,   *)
(* and its callback is one step per anchor.                                *)

MaxPad == 1         \* most spaces before and after an input of normalizeURL
MaxAnchors == 3     \* most a[href] elements of a document
MaxForms == 2       \* most form elements of a document

SeqsUpTo(S, n) == UNION {[1..k -> S] : k \in 0..n}

Pad(n) == [k \in 1..n |-> WS]

\* inputs of normalizeURL: padding, then scheme, host, path and a query or
\* a malformed escape, each present or not
UnitRaws ==
    { Pad(l) \o sch \o host \o path \o tail \o Pad(r) :
        l \in 0..MaxPad, r \in 0..MaxPad,
        sch \in {<<>>, <<"http://">>, <<"https://">>},
        host \in {<<>>, <<"a.example">>},
        path \in {<<>>, <<"/p">>},
        tail \in {<<>>, <<"?q">>, <<BadEscape>>} }

\* href attributes
UnitHrefs ==
    { <<WS>>,
      <<"/x">>,
      <<WS, "/x", "?q", "#f">>,
      <<"/x", EmptyQuery>>,
      <<"https://", "a.example", "/y">>,
      <<"https://", "A.EXAMPLE", "/y", "#f">>,
      <<"https://", "b.example">>,
      <<"javascript:">>,
      <<"mailto:">>,
      <<"#f">>,
      <<BadEscape>> }

\* base URLs of classifyLinks
UnitBases ==
    { [NoURL EXCEPT !.scheme = "https", !.host = "a.example", !.path = "/p"],
      [NoURL EXCEPT !.scheme = "http", !.host = "b.example"] }

\* form elements
UnitForms ==
    { <<>>,
      << Control("input", "password", "", <<>>) >>,
      << Control("button", "password", "", <<>>) >>,
      << Control("input", "password", "", <<>>),
         Control("input", "text", "q", <<>>) >>,
      << Control("input", "text", "username", <<>>),
         Control("input", "submit", "", <<>>) >>,
      << Control("input", "text", "email", <<>>) >>,
      << Control("button", "submit", "", <<>>) >>,
      << Control("input", "text", "", <<"login", "user">>),
         Control("button", "submit", "", <<>>) >>,
      << Control("input", "text", "q", <<"search">>),
         Control("input", "submit", "", <<>>) >>,
      << Control("textarea", "", "username", <<"email">>),
         Control("button", "submit", "", <<>>) >> }

InitUnit ==
    /\ entry \in {"normalizeURL", "classifyLinks", "hasLoginForm"}
    /\ pc = "unit"
    /\ raw \in IF entry = "normalizeURL" THEN UnitRaws ELSE {<<>>}
    /\ doc \in IF entry = "classifyLinks"
                THEN {Page(a) : a \in SeqsUpTo(UnitHrefs, MaxAnchors)}
                ELSE IF entry = "hasLoginForm"
                THEN {FormPage(f) : f \in SeqsUpTo(UnitForms, MaxForms)}
                ELSE {NoDoc}
    /\ base \in IF entry = "classifyLinks" THEN UnitBases ELSE {NoURL}
    /\ links = <<>>
    /\ maxConcurrent = 0
    /\ reqURL = NoURL
    /\ finalURL = NoURL
    /\ nreqs = 0
    /\ respStatus = 0
    /\ internal = 0
    /\ external = 0
    /\ result = NoResult
    /\ err = NoError
    /\ stages = <<>>
    /\ ctxDone = FALSE
    /\ sem = 0
    /\ wg = 0
    /\ mu = 0
    /\ inaccessible = 0
    /\ spawned = 0
    /\ gpc = <<>>
    /\ headOut = <<>>
    /\ getOut = <<>>
    /\ tmp = <<>>
    /\ counted = {}
    /\ ret = -1
    /\ out = NoOut
    /\ prev = NoAcc
    /\ cls = NoAcc
    /\ pos = 0
    /\ found = FALSE
    /\ httpStatus = -1

unitFrame ==
    <<entry, raw, reqURL, finalURL, nreqs, respStatus, doc, base, result, err,
      stages, ctxDone, httpStatus>>

\* normalizeURL(raw)
NormalizeCall ==
    /\ entry = "normalizeURL"
    /\ pc = "unit"
    /\ out' = normalizeURL(raw)
    /\ pc' = "done"
    /\ UNCHANGED <<internal, external, links, prev, cls, pos, found>>
    /\ UNCHANGED unitFrame
    /\ UNCHANGED poolVars

\* analyzer.go:151-153: a call of classifyLinks(doc, base) begins
ClassifyEnter ==
    /\ entry = "classifyLinks"
    /\ pc \in {"unit", "again"}
    /\ prev' = cls
    /\ cls' = NewAcc(cls)
    /\ pos' = 0
    /\ pc' = IF pc = "unit" THEN "each" ELSE "each again"
    /\ UNCHANGED <<internal, external, links, out, found>>
    /\ UNCHANGED unitFrame
    /\ UNCHANGED poolVars

\* analyzer.go:153-181: the callback runs for the next a[href] element
ClassifyEach ==
    /\ entry = "classifyLinks"
    /\ pc \in {"each", "each again"}
    /\ pos < Len(doc.anchors)
    /\ cls' = classifyAnchor(cls, doc.anchors[pos + 1], base)
    /\ pos' = pos + 1
    /\ UNCHANGED <<pc, internal, external, links, out, prev, found>>
    /\ UNCHANGED unitFrame
    /\ UNCHANGED poolVars

\* analyzer.go:182: the named results are returned
ClassifyReturn ==
    /\ entry = "classifyLinks"
    /\ pc \in {"each", "each again"}
    /\ pos = Len(doc.anchors)
    /\ internal' = cls.internal
    /\ external' = cls.external
    /\ links' = cls.all
    /\ pc' = IF pc = "each" THEN "again" ELSE "done"
    /\ UNCHANGED <<out, prev, cls, pos, found>>
    /\ UNCHANGED unitFrame
    /\ UNCHANGED poolVars

\* hasLoginForm(doc)
LoginCall ==
    /\ entry = "hasLoginForm"
    /\ pc = "unit"
    /\ found' = hasLoginForm(doc)
    /\ pc' = "done"
    /\ UNCHANGED <<internal, external, links, out, prev, cls, pos>>
    /\ UNCHANGED unitFrame
    /\ UNCHANGED poolVars

NextUnit ==
    \/ NormalizeCall
    \/ ClassifyEnter
    \/ ClassifyEach
    \/ ClassifyReturn
    \/ LoginCall

SpecUnit == InitUnit /\ [][NextUnit]_vars

----------------------------------------------------------------------------
(* Vocabulary of the properties.  The status range is written out here,    *)
(* independently of the tests the actions make.                            *)

\* a response whose status is in [200,400)
InRange(o) == o.err = "" /\ o.code \in 200..399

\* the request was attempted: client.Do was called for it and has returned
Attempted(o) == o # Unsent

\* linkAccessible has returned false for link i
ReturnedFalse(i) ==
    /\ Attempted(headOut[i]) /\ ~InRange(headOut[i])
    /\ Attempted(getOut[i]) /\ ~InRange(getOut[i])

\* goroutine i holds a slot of the semaphore
Holding(i) ==
    gpc[i] \in {"head", "headWait", "get", "getWait", "lock", "load", "store",
                "unlock", "release"}

InFlight == Cardinality({i \in Probes : Holding(i)})

\* checkLinksAccessibility has been entered from AnalyzeURL
Checking == entry = "AnalyzeURL" /\ Len(stages) = 5

Returned == pc = "done"

StageOrder == <<"Normalize", "Fetch", "Parse", "Classify", "Check">>

----------------------------------------------------------------------------
(* C1: at every moment the number of probe goroutines that hold a slot of  *)
(* the semaphore (acquired, not yet released) is at most maxConcurrent,    *)
(* and AnalyzeURL calls checkLinksAccessibility with maxConcurrent = 10.   *)
C1_InFlightBounded ==
    /\ InFlight <= maxConcurrent
    /\ sem = InFlight
    /\ Checking => maxConcurrent = 10

\* the cap binds: every slot is taken and a further goroutine waits for one
C1_Witness ==
    /\ InFlight = maxConcurrent
    /\ \E i \in Probes : gpc[i] = "acquire"
    /\ \E i \in Probes : gpc[i] = "headWait"

(* C2: the value checkLinksAccessibility returns is the number of links    *)
(* whose linkAccessible returned false, and at every moment the counter is *)
(* the number of goroutines that have completed their increment: no        *)
(* increment is lost and none is made twice.                               *)
C2_CountExact ==
    /\ inaccessible = Cardinality(counted)
    /\ ret # -1 =>
           ret = Cardinality({i \in Probes : ReturnedFalse(i)})

\* one link answers 200 and the other fails both probes: exactly 1
C2_Witness ==
    /\ entry = "checkLinksAccessibility"
    /\ Returned
    /\ Len(links) = 2
    /\ headOut[1] = Response(200)
    /\ headOut[2] = Response(400) /\ getOut[2] = Response(400)
    /\ ret = 1

(* C3: a link is counted as inaccessible only if its HEAD and its GET were *)
(* both attempted and each failed or answered outside [200,400); a link    *)
(* whose HEAD or GET answered in [200,400) is never counted and never      *)
(* heads for the counter.                                                  *)
C3_CountedOnlyIfBothFail ==
    \A i \in Probes :
        /\ (i \in counted \/ gpc[i] \in {"lock", "load", "store", "unlock"}) =>
               ReturnedFalse(i)
        /\ (InRange(headOut[i]) \/ InRange(getOut[i])) =>
               /\ i \notin counted
               /\ gpc[i] \in {"release", "wgDone", "done"}

\* one link counted after two failed probes, another saved by its GET
C3_Witness ==
    \E i, j \in Probes :
        /\ i \in counted
        /\ headOut[i] = Response(400) /\ getOut[i] = TransportError
        /\ gpc[j] = "done" /\ j \notin counted
        /\ headOut[j] = Response(400) /\ getOut[j] = Response(399)

(* C4: AnalyzeURL enters its stages in the order Normalize, Fetch, Parse,  *)
(* Classify, Check; a failed stage is the last one entered, no page        *)
(* request is made after a normalize failure and no probe after a fetch or *)
(* parse failure; a call that has returned has exactly one of result and   *)
(* error, a call that has not returned has neither.                        *)
C4_StagesShortCircuit ==
    entry = "AnalyzeURL" =>
        /\ Len(stages) <= 5
        /\ stages = SubSeq(StageOrder, 1, Len(stages))
        /\ Returned => (result.isNil # err.isNil)
        /\ ~Returned => (result.isNil /\ err.isNil)
        /\ ~err.isNil =>
               /\ Returned
               /\ Len(stages) <= 3
               /\ Len(stages) = 1 => (nreqs = 0 /\ respStatus = 0 /\ ~doc.present)
               /\ gpc = <<>> /\ spawned = 0 /\ links = <<>>
        /\ ~result.isNil => Len(stages) = 5

\* the parse stage fails after a successful fetch
C4_Witness ==
    /\ entry = "AnalyzeURL"
    /\ Returned
    /\ ~err.isNil
    /\ stages = <<"Normalize", "Fetch", "Parse">>
    /\ respStatus = 200

C6_ProbeFailuresNotErrors ==
    (entry = "AnalyzeURL" /\ Len(stages) >= 4) =>
        /\ err.isNil
        /\ Returned =>
               /\ ~result.isNil
               /\ result.Inaccessible =
                      Cardinality({i \in Probes : ReturnedFalse(i)})

\* every probe of a page with two links fails, by error, status and
\* cancellation, and the result is returned
C6_Witness ==
    /\ entry = "AnalyzeURL"
    /\ Returned
    /\ ~result.isNil
    /\ result.Links.Total = 2
    /\ result.Inaccessible = 2
    /\ headOut[1] = TransportError /\ getOut[1] = Response(400)
    /\ headOut[2] = Canceled

(* C7 (as claimed): when ctx is cancelled while a link's HEAD is in flight  *)
(* and the HEAD fails with the cancellation error, linkAccessible makes no *)
(* GET call for that link, and the link is not treated as accessible.      *)
C7_NoRetryAfterCancel ==
    \A i \in Probes :
        headOut[i] = Canceled =>
            /\ getOut[i] = Unsent
            /\ gpc[i] # "getWait"
            /\ ~InRange(getOut[i])

(* C7 (amended): after a HEAD that failed with the cancellation error,     *)
(* linkAccessible still makes its one fallback GET call; on the cancelled  *)
(* context that call fails without a request being sent, so no GET is in   *)
(* flight for the link, the link is never treated as accessible, and it is *)
(* counted as inaccessible.                                                *)
C7_CanceledHeadFallsBack ==
    \A i \in Probes :
        headOut[i] = Canceled =>
            /\ ctxDone
            /\ gpc[i] \in {"get", "lock", "load", "store", "unlock", "release",
                           "wgDone", "done"}
            /\ getOut[i] = (IF gpc[i] = "get" THEN Unsent ELSE CanceledUnsent)
            /\ gpc[i] \in {"release", "wgDone", "done"} => i \in counted
            /\ (ret # -1) => ret >= 1

\* ctx was cancelled during the HEAD, the GET call was made and failed,
\* and the link has been counted
C7_Witness ==
    \E i \in Probes :
        /\ headOut[i] = Canceled
        /\ getOut[i] = CanceledUnsent
        /\ i \in counted
        /\ ret = Cardinality(counted)

(* C8 (as claimed): the base URL AnalyzeURL gives classifyLinks is the URL *)
(* of the final request after redirects: the link list is the one that     *)
(* resolving the hrefs against the post-redirect URL gives, and the        *)
(* internal count is the number of links whose host equals the             *)
(* post-redirect host, ignoring case.                                      *)
C8_BaseIsFinalURL ==
    (entry = "AnalyzeURL" /\ Len(stages) >= 4) =>
        /\ links = classifyLinks(doc, finalURL).all
        /\ internal =
               Cardinality({k \in 1..Len(links) :
                               EqualFold(Parse(links[k]).url.host, finalURL.host)})

(* C9 (as claimed): a redirect chain of at most 5 redirects is followed to *)
(* its end; only a chain of more than 5 redirects fails, with StatusCode 0 *)
(* and no result.  When client.Do gives up, each of the nreqs requests     *)
(* made was answered by a redirect.                                        *)
C9_RedirectCap ==
    (entry = "AnalyzeURL" /\ Returned /\ err.Err = "stopped after 5 redirects") =>
        /\ nreqs > 5
        /\ err.StatusCode = 0
        /\ result.isNil

(* C10: every result of AnalyzeURL has 0 <= Inaccessible <= Links.Total.   *)
C10_InaccessibleAtMostTotal ==
    ~result.isNil =>
        /\ 0 <= result.Inaccessible
        /\ result.Inaccessible <= result.Links.Total

\* every link of the page is inaccessible
C10_Witness ==
    /\ ~result.isNil
    /\ result.Links.Total = 2
    /\ result.Inaccessible = result.Links.Total
    /\ ctxDone = FALSE

(* C11: every result of AnalyzeURL has Links.Total = Links.Internal +       *)
(* Links.External, and this total is the number of entries of the link     *)
(* list handed to checkLinksAccessibility.                                 *)
C11_TotalIsSum ==
    ~result.isNil =>
        /\ result.Links.Total = result.Links.Internal + result.Links.External
        /\ result.Links.Total = Len(links)
        /\ Len(links) = Cardinality(Probes)

\* a page with one internal and one external link
C11_Witness ==
    /\ ~result.isNil
    /\ result.Links.Internal = 1
    /\ result.Links.External = 1
    /\ result.Links.Total = 2
    /\ Len(links) = 2

(* C17: when AnalyzeURL returns an error, handleAnalyze answers with the   *)
(* error's StatusCode if that is not 0 and with 502 if it is 0; when       *)
(* AnalyzeURL returns a result, no status is written.                      *)
C17_HandlerStatus ==
    httpStatus # -1 =>
        /\ Returned
        /\ (~err.isNil /\ err.StatusCode # 0) => httpStatus = err.StatusCode
        /\ (~err.isNil /\ err.StatusCode = 0) => httpStatus = 502
        /\ err.isNil => (~result.isNil /\ httpStatus = 0)

\* a 404 page is answered with 404
C17_Witness ==
    /\ httpStatus = 404
    /\ err.StatusCode = 404
    /\ respStatus = 404

----------------------------------------------------------------------------
(* Vocabulary of the properties of the direct calls.                       *)

\* the anchors the contract leaves out
Skipped(h) ==
    LET t == TrimSpace(h)
    IN  \/ t = <<>>
        \/ Head(t) \in {"javascript:", "mailto:", "#"} \cup FragToks
        \/ ~Parse(t).ok

\* the href resolved against the base, without fragment and without query
StrippedKey(h, b) ==
    LET u == Parse(TrimSpace(h)).url
        abs == IF u.scheme # "" THEN u ELSE ResolveReference(b, u)
    IN  URLString([abs EXCEPT !.frag = "", !.query = "", !.force = FALSE])

Range(seq) == {seq[k] : k \in DOMAIN seq}

NoDup(seq) == \A i, j \in DOMAIN seq : i # j => seq[i] # seq[j]

\* the keys of the first n anchors that are not left out
KeysOfFirst(n) ==
    {StrippedKey(doc.anchors[k], base) :
        k \in {m \in 1..n : ~Skipped(doc.anchors[m])}}

ClassifyReturned == entry = "classifyLinks" /\ pc \in {"again", "done"}

(* C12: the list classifyLinks returns has no two equal entries, and the   *)
(* anchors whose resolved URLs are equal once fragment and query are       *)
(* removed contribute one entry and one count together.                    *)
C12_OneEntryPerKey ==
    ClassifyReturned =>
        /\ NoDup(links)
        /\ Len(links) = Cardinality(KeysOfFirst(Len(doc.anchors)))
        /\ internal + external = Cardinality(KeysOfFirst(Len(doc.anchors)))

(* C13: the second call of classifyLinks on the same document and base     *)
(* returns the same counts and the same list, in the same order, as the    *)
(* first call.                                                             *)
C13_ClassifyTwiceSame ==
    (entry = "classifyLinks" /\ pc = "done") =>
        /\ internal = prev.internal
        /\ external = prev.external
        /\ links = prev.all

\* two calls that both found one internal and one external link
C13_Witness ==
    /\ entry = "classifyLinks"
    /\ pc = "done"
    /\ prev.internal = 1
    /\ prev.external = 1
    /\ Len(links) = 2

(* C14: a step of the callback on an anchor whose trimmed href is empty,   *)
(* starts with javascript:, mailto: or #, or does not parse leaves both    *)
(* counts and the list as they are; a step on any other anchor whose key   *)
(* no earlier anchor had adds one to exactly one count and one entry to    *)
(* the list.                                                               *)
C14_SkippedAnchorsChangeNothing ==
    [][(entry = "classifyLinks" /\ pos' = pos + 1) =>
        LET h == doc.anchors[pos']
        IN  /\ Skipped(h) =>
                /\ cls'.internal = cls.internal
                /\ cls'.external = cls.external
                /\ cls'.all = cls.all
            /\ (~Skipped(h) /\ StrippedKey(h, base) \notin KeysOfFirst(pos)) =>
                /\ cls'.internal + cls'.external
                       = cls.internal + cls.external + 1
                /\ cls'.internal \in {cls.internal, cls.internal + 1}
                /\ Len(cls'.all) = Len(cls.all) + 1
                /\ SubSeq(cls'.all, 1, Len(cls.all)) = cls.all]_vars

\* a mailto: anchor and an unparseable anchor were passed over, and the
\* third anchor was counted
C14_Witness ==
    /\ entry = "classifyLinks"
    /\ pc = "each"
    /\ pos = 3
    /\ doc.anchors = << <<"mailto:">>, <<BadEscape>>, <<"/x">> >>
    /\ cls.internal + cls.external = 1
    /\ Len(cls.all) = 1

(* C15: normalizeURL fails exactly for the inputs that are empty after     *)
(* trimming, do not parse, or have no host; otherwise its output is the    *)
(* trimmed input, with https:// in front exactly when the trimmed input    *)
(* does not start with http:// or https://, and so starts with a scheme    *)
(* and has a host.                                                         *)
C15_NormalizeURL ==
    (entry = "normalizeURL" /\ pc = "done") =>
        LET t == TrimSpace(raw)
            lacks == t = <<>> \/ Head(t) \notin {"http://", "https://"}
            full == IF lacks THEN <<"https://">> \o t ELSE t
            bad == t = <<>> \/ ~Parse(full).ok \/ Parse(full).url.host = ""
        IN  /\ out.ok <=> ~bad
            /\ out.ok =>
                /\ out.out = full
                /\ lacks <=> (out.out = <<"https://">> \o t)
                /\ Head(out.out) \in {"http://", "https://"}
                /\ Len(out.out) >= 2
                /\ out.out[2] \in HostToks

\* " a.example" became "https://a.example"
C15_Witness ==
    /\ entry = "normalizeURL"
    /\ pc = "done"
    /\ raw = <<WS, "a.example">>
    /\ out.ok
    /\ out.out = <<"https://", "a.example">>

PasswordInput(c) == c.tag = "input" /\ c.type = "password"

UserField(c) ==
    /\ c.tag = "input"
    /\ \/ c.name \in {"username", "email"}
       \/ \E k \in DOMAIN c.id : c.id[k] \in {"user", "email"}

SubmitControl(c) == c.type = "submit" /\ c.tag \in {"button", "input"}

(* C16: hasLoginForm returns true exactly when some form has a password    *)
(* input, or has both a user or email field and a submit control.          *)
C16_LoginForm ==
    (entry = "hasLoginForm" /\ pc = "done") =>
        (found <=>
            \E i \in DOMAIN doc.forms :
                LET f == doc.forms[i]
                IN  \/ \E k \in DOMAIN f : PasswordInput(f[k])
                    \/ /\ \E k \in DOMAIN f : UserField(f[k])
                       /\ \E k \in DOMAIN f : SubmitControl(f[k]))

\* the second form of a document is found by its user field and submit
\* button, and no form has a password input
C16_Witness ==
    /\ entry = "hasLoginForm"
    /\ pc = "done"
    /\ found
    /\ Len(doc.forms) = 2
    /\ \A i \in DOMAIN doc.forms :
           \A k \in DOMAIN doc.forms[i] : ~PasswordInput(doc.forms[i][k])
    /\ ~\E k \in DOMAIN doc.forms[1] : SubmitControl(doc.forms[1][k])

(* C18: a GET for a link is sent only after the link's HEAD has ended      *)
(* with an error or a status outside [200,400), never after a HEAD whose   *)
(* status is in [200,400); and each link gets at most one HEAD and at most *)
(* one GET.                                                                *)
C18_HeadThenOneGet ==
    [][\A i \in Probes \cap DOMAIN gpc' :
        \* the HEAD is sent once, before anything else
        /\ (gpc[i] # "headWait" /\ gpc'[i] = "headWait") =>
               (headOut[i] = Unsent /\ getOut[i] = Unsent)
        /\ (gpc[i] = "headWait" /\ gpc'[i] # "headWait") =>
               (headOut'[i] # Unsent /\ headOut'[i] # CanceledUnsent)
        \* the GET is sent once, after a HEAD that failed
        /\ (gpc[i] # "getWait" /\ gpc'[i] = "getWait") =>
               /\ Attempted(headOut[i])
               /\ ~InRange(headOut[i])
               /\ getOut[i] = Unsent
        /\ (gpc[i] = "getWait" /\ gpc'[i] # "getWait") =>
               (getOut'[i] # Unsent /\ getOut'[i] # CanceledUnsent)
        \* an answer that has arrived is final
        /\ Attempted(headOut[i]) => headOut'[i] = headOut[i]
        /\ Attempted(getOut[i]) => getOut'[i] = getOut[i]
        \* no GET after a HEAD in range
        /\ InRange(headOut'[i]) =>
               (getOut'[i] = Unsent /\ gpc'[i] \notin {"get", "getWait"})]_vars

\* one link answered its HEAD in range and got no GET; another answered
\* its HEAD out of range and its GET has been answered
C18_Witness ==
    /\ Probes = {1, 2}
    /\ InRange(headOut[1])
    /\ getOut[1] = Unsent
    /\ gpc[1] = "done"
    /\ headOut[2] = Response(400)
    /\ getOut[2] = Response(200)
    /\ gpc[2] = "done"

(* C19: under fair scheduling, with every request eventually answered,     *)
(* checkLinksAccessibility eventually returns with every goroutine ended,  *)
(* so that none is left waiting for the semaphore, whether or not ctx is   *)
(* cancelled and whether or not the list is longer than the cap.           *)
C19_EventuallyReturns ==
    <>(/\ ret # -1
       /\ Cardinality(Probes) = Len(links)
       /\ \A i \in Probes : gpc[i] = "done")

\* a call with more links than slots has returned after a cancellation,
\* and a goroutine had to wait for its slot
C19_Witness ==
    /\ ret # -1
    /\ ctxDone
    /\ maxConcurrent = 1
    /\ Len(links) = 2
    /\ \A i \in Probes : gpc[i] = "done"

(* C20: when checkLinksAccessibility has returned, every goroutine it      *)
(* started has ended, the semaphore is empty, the mutex is free, and the   *)
(* returned count holds the increment of every link that was found         *)
(* inaccessible; for an empty list it returns 0 and starts no goroutine.   *)
C20_ReturnsAfterJoin ==
    ret # -1 =>
        /\ Cardinality(Probes) = Len(links)
        /\ spawned = Len(links)
        /\ \A i \in Probes : gpc[i] = "done"
        /\ InFlight = 0
        /\ sem = 0
        /\ wg = 0
        /\ mu = 0
        /\ counted = {i \in Probes : ReturnedFalse(i)}
        /\ ret = Cardinality(counted)
        /\ links = <<>> =>
               (ret = 0 /\ spawned = 0 /\ headOut = <<>> /\ getOut = <<>>)

\* a direct call with two links and one slot has returned 1
C20_Witness ==
    /\ entry = "checkLinksAccessibility"
    /\ pc = "done"
    /\ ret = 1
    /\ Len(links) = 2
    /\ maxConcurrent = 1
    /\ counted = {2}

====
